---- MODULE Spec2Model ----
(***************************************************************************)
(* Model of package interrupt (src/interrupt.go).                          *)
(*                                                                         *)
(*   func Handle(ctx context.Context) context.Context {                    *)
(*       ctx, cancel := signal.NotifyContext(ctx, Signals...)   // 55      *)
(*       go func() {                                            // 56      *)
(*           <-ctx.Done()                                       // 57      *)
(*           cancel()                                           // 58      *)
(*       }()                                                               *)
(*       return ctx                                             // 60      *)
(*   }                                                                     *)
(*                                                                         *)
(* Handle is modelled statement by statement.  The calls it makes into    *)
(* context and os/signal are modelled by what they do to the state Handle  *)
(* builds: the derived cancelCtx, the process-wide handlers table with its *)
(* per-signal reference counts, the one-slot channel of the registration,  *)
(* and the goroutine NotifyContext starts to turn a received signal into a *)
(* cancel.  The environment cancels parents and delivers signals.          *)
(***************************************************************************)
EXTENDS Integers, Sequences, FiniteSets

\* Number of signals the environment delivers to the process.
MaxSignals == 2

\* Capacity of the channel NotifyContext registers: make(chan os.Signal, 1).
ChanCap == 1

\* The Handle calls the program makes, concurrently, each on a parent
\* context of its own.
Calls == {"h1", "h2"}

\* The signals the operating system can deliver to the process.
AllSignals == {"SIGINT", "SIGTERM"}

\* The values the package variable Signals takes: os.Interrupt alone, or
\* os.Interrupt and syscall.SIGTERM on unix-like platforms.
SignalSets == {{"SIGINT"}, {"SIGINT", "SIGTERM"}}

VARIABLES
    Signals,     \* the package's interrupt signal set
    pc,          \* pc[h]: the statement of Handle call h that runs next
    parent,      \* parent[h]: state of the parent context passed to call h
    ctx,         \* ctx[h]: the derived context of call h
    handlers,    \* os/signal's table: registered channels and ref counts
    ch,          \* ch[h]: buffer of the channel registered by call h
    sigGo,       \* sigGo[h]: the goroutine NotifyContext starts
    waiter,      \* waiter[h]: the goroutine Handle starts (lines 56-59)
    exited,      \* the platform's default action terminated the process
    nDelivered,  \* signals delivered so far
    delivery,    \* what became of the signal delivered last
    got,         \* got[h]: a signal was relayed to the registration of h
    doneAtCall,  \* doneAtCall[h]: the parent was done when h was called
    stopCalls    \* stopCalls[h]: times the waiter of h ran cancel() (line 58)

vars == <<Signals, pc, parent, ctx, handlers, ch, sigGo, waiter, exited,
          nDelivered, delivery, got, doneAtCall, stopCalls>>

----------------------------------------------------------------------------
\* context: the derived cancelCtx and its cancel function

\* A context that has not been cancelled.
NewCtx == [done |-> FALSE, err |-> "nil", closes |-> 0, cause |-> "none"]

\* The context's Done channel is closed.
Done(c) == c.done

\* Fault: cancel without the err check closes the Done channel again.
cancelUnguarded(c, by) ==
    [done |-> TRUE, err |-> "Canceled", closes |-> c.closes + 1,
     cause |-> IF c.err # "nil" THEN c.cause ELSE by]

\* Fault: a repeated cancel installs a fresh, open Done channel.
cancelReopens(c, by) ==
    IF c.err # "nil"
    THEN [c EXCEPT !.done = FALSE]
    ELSE [done |-> TRUE, err |-> "Canceled", closes |-> c.closes + 1,
          cause |-> by]

\* cancelCtx.cancel: the first call sets err and closes the Done channel,
\* any later call returns at once.  by records which path cancelled first.
cancel(c, by) ==
    IF c.err # "nil"
    THEN c
    ELSE [done |-> TRUE, err |-> "Canceled", closes |-> c.closes + 1,
          cause |-> by]

\* Fault: the waiter does not wait for the Done channel.
recvDoneNoWait(c) == TRUE

\* Fault: the waiter receives from a channel that is never closed.
recvDoneNever(c) == FALSE

\* Line 57, <-ctx.Done(): the receive can proceed once the channel is closed.
recvDone(c) == Done(c)

\* The parent's Done channel is closed.
ParentDone(p) == p # "active"

\* Fault: cancelling the child cancels the parent as well.
removeChildCancels(p) == IF p = "active" THEN "closing" ELSE p

\* A cancel that starts at the child (lines 55 and 58) detaches the child
\* from its parent and leaves the parent's own state as it is.
removeChild(p) == p

\* Fault: the function is called, not started with go, so the caller goes on
\* only once it has finished.
afterCall(w) == w = "exit"

\* Line 56, the go statement: the caller goes on at once, whatever the
\* state w of the goroutine it started.
afterGo(w) == TRUE

\* Fault: the child is derived without looking at the parent's state.
WithCancelDetached(p) == NewCtx

\* context.WithCancel(parent): a child that is cancelled at once when the
\* parent is already done, and is otherwise attached to the parent.
WithCancel(p) == IF ParentDone(p) THEN cancel(NewCtx, "parent") ELSE NewCtx

\* Fault: the parent's cancel does not reach the child.
propagateCancelLost(c, attached) == c

\* The parent's cancel reaching an attached child.
propagateCancel(c, attached) == IF attached THEN cancel(c, "parent") ELSE c

----------------------------------------------------------------------------
\* os/signal: the handlers table

\* Fault: only os.Interrupt is registered, the platform's extra signals
\* are forgotten.
MaskInterruptOnly(sigs) == {"SIGINT"}

\* Fault: a registration made with no signal wants no signal.
MaskLiteral(sigs) == sigs

\* The signals a registration made with sigs wants: Notify with no signal
\* relays every incoming signal.
Mask(sigs) == IF sigs = {} THEN AllSignals ELSE sigs

\* Fault: the registration is not made by the time NotifyContext returns.
NotifyDeferred(tab, h, sigs) == tab

\* signal.Notify(c, sigs...) for the fresh channel of call h.
Notify(tab, h, sigs) ==
    [m   |-> tab.m \cup {h},
     ref |-> [s \in AllSignals |->
                 IF s \in Mask(sigs) THEN tab.ref[s] + 1 ELSE tab.ref[s]]]

\* Fault: stop cancels the context and leaves the registration in place.
StopKeepsHandler(tab, h, sigs) == tab

\* Fault: the handler is deleted and its signals stay referenced.
StopKeepsRef(tab, h, sigs) == [m |-> tab.m \ {h}, ref |-> tab.ref]

\* Fault: every registration is dropped, as signal.Reset would.
StopAll(tab, h, sigs) == [m |-> {}, ref |-> [s \in AllSignals |-> 0]]

\* Fault: the signals of the deleted handler are disabled without looking
\* at the other registrations that reference them.
StopDisables(tab, h, sigs) ==
    [m   |-> tab.m \ {h},
     ref |-> [s \in AllSignals |->
                 IF s \in Mask(sigs) THEN 0 ELSE tab.ref[s]]]

\* signal.Stop(c) for the channel of call h: nothing when the channel is not
\* registered, else the handler is deleted and its signals dereferenced.
Stop(tab, h, sigs) ==
    IF h \notin tab.m
    THEN tab
    ELSE [m   |-> tab.m \ {h},
          ref |-> [s \in AllSignals |->
                      IF s \in Mask(sigs) THEN tab.ref[s] - 1 ELSE tab.ref[s]]]

\* Fault: a signal is handed to one registration only.
TargetsOne(tab, sig, sigs) ==
    IF sig \in Mask(sigs) /\ tab.m # {}
    THEN {CHOOSE h \in tab.m : TRUE}
    ELSE {}

\* The registrations a delivered signal is relayed to.
Targets(tab, sig, sigs) == IF sig \in Mask(sigs) THEN tab.m ELSE {}

\* The runtime catches a signal only while some registration references it;
\* otherwise the platform's default action applies.
Intercepted(tab, sig) == tab.ref[sig] > 0

\* Fault: the channel is unbuffered, so the non-blocking send finds no
\* room and drops the signal.
sendUnbuffered(buf, sig) == buf

\* The non-blocking send of process(): the signal is dropped when the
\* channel is full.
send(buf, sig) == IF Len(buf) < ChanCap THEN Append(buf, sig) ELSE buf

----------------------------------------------------------------------------
Init ==
    /\ Signals \in SignalSets
    /\ pc = [h \in Calls |-> "idle"]
    /\ parent = [h \in Calls |-> "active"]
    /\ ctx = [h \in Calls |-> NewCtx]
    /\ handlers = [m |-> {}, ref |-> [s \in AllSignals |-> 0]]
    /\ ch = [h \in Calls |-> <<>>]
    /\ sigGo = [h \in Calls |-> "none"]
    /\ waiter = [h \in Calls |-> "none"]
    /\ exited = FALSE
    /\ nDelivered = 0
    /\ delivery = [sig |-> "none", targets |-> {}, default |-> FALSE]
    /\ got = [h \in Calls |-> FALSE]
    /\ doneAtCall = [h \in Calls |-> FALSE]
    /\ stopCalls = [h \in Calls |-> 0]

\* Line 55: ctx, cancel := signal.NotifyContext(ctx, Signals...).
\* WithCancel derives the child, Notify registers a fresh channel, and the
\* relaying goroutine is started only if the child is not yet done.
NotifyContext(h) ==
    /\ ~exited
    /\ pc[h] = "idle"
    /\ ctx' = [ctx EXCEPT ![h] = WithCancel(parent[h])]
    /\ handlers' = Notify(handlers, h, Signals)
    /\ sigGo' = [sigGo EXCEPT ![h] =
                    IF Done(WithCancel(parent[h])) THEN "none" ELSE "select"]
    /\ doneAtCall' = [doneAtCall EXCEPT ![h] = ParentDone(parent[h])]
    /\ pc' = [pc EXCEPT ![h] = "go"]
    /\ UNCHANGED <<Signals, parent, ch, waiter, exited, nDelivered, delivery,
                   got,
                   stopCalls>>

\* Line 56: go func() { ... }() starts the waiter.
Go(h) ==
    /\ ~exited
    /\ pc[h] = "go"
    /\ waiter' = [waiter EXCEPT ![h] = "blocked"]
    /\ pc' = [pc EXCEPT ![h] = "return"]
    /\ UNCHANGED <<Signals, parent, ctx, handlers, ch, sigGo, exited,
                   nDelivered, delivery, got, doneAtCall,
                   stopCalls>>

\* Line 60: return ctx.
Return(h) ==
    /\ ~exited
    /\ pc[h] = "return"
    /\ afterGo(waiter[h])
    /\ pc' = [pc EXCEPT ![h] = "returned"]
    /\ UNCHANGED <<Signals, parent, ctx, handlers, ch, sigGo, waiter, exited,
                   nDelivered, delivery, got, doneAtCall,
                   stopCalls>>

\* Line 57: <-ctx.Done() lets the waiter through once the context is done.
WaiterWake(h) ==
    /\ ~exited
    /\ waiter[h] = "blocked"
    /\ recvDone(ctx[h])
    /\ waiter' = [waiter EXCEPT ![h] = "woken"]
    /\ UNCHANGED <<Signals, pc, parent, ctx, handlers, ch, sigGo, exited,
                   nDelivered, delivery, got, doneAtCall,
                   stopCalls>>

\* Line 58: cancel() is the stop function NotifyContext returned:
\* c.cancel() followed by signal.Stop(c.ch).
WaiterCancel(h) ==
    /\ ~exited
    /\ waiter[h] = "woken"
    /\ ctx' = [ctx EXCEPT ![h] = cancel(ctx[h], "stop")]
    /\ handlers' = Stop(handlers, h, Signals)
    /\ parent' = [parent EXCEPT ![h] = removeChild(parent[h])]
    /\ waiter' = [waiter EXCEPT ![h] = "exit"]
    /\ stopCalls' = [stopCalls EXCEPT ![h] = stopCalls[h] + 1]
    /\ UNCHANGED <<Signals, pc, ch, sigGo, exited, nDelivered,
                   delivery, got, doneAtCall>>

\* The goroutine of NotifyContext, case <-c.ch: c.cancel().
RelayRecv(h) ==
    /\ ~exited
    /\ sigGo[h] = "select"
    /\ ch[h] # <<>>
    /\ ch' = [ch EXCEPT ![h] = Tail(ch[h])]
    /\ ctx' = [ctx EXCEPT ![h] = cancel(ctx[h], "signal")]
    /\ parent' = [parent EXCEPT ![h] = removeChild(parent[h])]
    /\ sigGo' = [sigGo EXCEPT ![h] = "exit"]
    /\ UNCHANGED <<Signals, pc, handlers, waiter, exited, nDelivered,
                   delivery, got, doneAtCall, stopCalls>>

\* The goroutine of NotifyContext, case <-c.Done(): return.
RelayDone(h) ==
    /\ ~exited
    /\ sigGo[h] = "select"
    /\ Done(ctx[h])
    /\ sigGo' = [sigGo EXCEPT ![h] = "exit"]
    /\ UNCHANGED <<Signals, pc, parent, ctx, handlers, ch, waiter, exited,
                   nDelivered, delivery, got, doneAtCall,
                   stopCalls>>

\* The owner of the parent context of call h cancels it (or its deadline
\* passes): the parent's Done channel closes.
ParentCancel(h) ==
    /\ ~exited
    /\ parent[h] = "active"
    /\ parent' = [parent EXCEPT ![h] = "closing"]
    /\ UNCHANGED <<Signals, pc, ctx, handlers, ch, sigGo, waiter, exited,
                   nDelivered, delivery, got, doneAtCall,
                   stopCalls>>

\* The parent's cancel then cancels the children attached to it.
ParentPropagate(h) ==
    /\ ~exited
    /\ parent[h] = "closing"
    /\ parent' = [parent EXCEPT ![h] = "done"]
    /\ ctx' = [ctx EXCEPT ![h] = propagateCancel(ctx[h], pc[h] # "idle")]
    /\ UNCHANGED <<Signals, pc, handlers, ch, sigGo, waiter, exited,
                   nDelivered, delivery, got, doneAtCall,
                   stopCalls>>

\* The operating system delivers sig to the process.  A signal some
\* registration references is relayed to every registration that wants it;
\* any other signal gets the platform's default action: the process exits.
Deliver(sig) ==
    /\ ~exited
    /\ nDelivered < MaxSignals
    /\ nDelivered' = nDelivered + 1
    /\ IF Intercepted(handlers, sig)
       THEN /\ ch' = [h \in Calls |->
                        IF h \in Targets(handlers, sig, Signals)
                        THEN send(ch[h], sig) ELSE ch[h]]
            /\ got' = [h \in Calls |->
                        got[h] \/ h \in Targets(handlers, sig, Signals)]
            /\ delivery' = [sig |-> sig,
                            targets |-> Targets(handlers, sig, Signals),
                            default |-> FALSE]
            /\ UNCHANGED exited
       ELSE /\ exited' = TRUE
            /\ delivery' = [sig |-> sig, targets |-> {}, default |-> TRUE]
            /\ UNCHANGED <<ch, got>>
    /\ UNCHANGED <<Signals, pc, parent, ctx, handlers, sigGo, waiter,
                   doneAtCall,
                   stopCalls>>

Next ==
    \/ \E h \in Calls : NotifyContext(h)
    \/ \E h \in Calls : Go(h)
    \/ \E h \in Calls : Return(h)
    \/ \E h \in Calls : WaiterWake(h)
    \/ \E h \in Calls : WaiterCancel(h)
    \/ \E h \in Calls : RelayRecv(h)
    \/ \E h \in Calls : RelayDone(h)
    \/ \E h \in Calls : ParentCancel(h)
    \/ \E h \in Calls : ParentPropagate(h)
    \/ \E sig \in AllSignals : Deliver(sig)

Spec == Init /\ [][Next]_vars

\* The program with the package variable Signals holding no signal:
\* Handle then calls signal.NotifyContext(ctx) with no signal argument.
InitEmpty ==
    /\ Signals = {}
    /\ pc = [h \in Calls |-> "idle"]
    /\ parent = [h \in Calls |-> "active"]
    /\ ctx = [h \in Calls |-> NewCtx]
    /\ handlers = [m |-> {}, ref |-> [s \in AllSignals |-> 0]]
    /\ ch = [h \in Calls |-> <<>>]
    /\ sigGo = [h \in Calls |-> "none"]
    /\ waiter = [h \in Calls |-> "none"]
    /\ exited = FALSE
    /\ nDelivered = 0
    /\ delivery = [sig |-> "none", targets |-> {}, default |-> FALSE]
    /\ got = [h \in Calls |-> FALSE]
    /\ doneAtCall = [h \in Calls |-> FALSE]
    /\ stopCalls = [h \in Calls |-> 0]

EmptySpec == InitEmpty /\ [][Next]_vars

\* Goroutines that can run do run, and a cancel in progress completes; the
\* caller, the owner of the parent and the sender of signals are not bound
\* to act.
Fairness ==
    \A h \in Calls :
        /\ WF_vars(Go(h))
        /\ WF_vars(Return(h))
        /\ WF_vars(WaiterWake(h))
        /\ WF_vars(WaiterCancel(h))
        /\ WF_vars(RelayRecv(h))
        /\ WF_vars(RelayDone(h))
        /\ WF_vars(ParentPropagate(h))

FairSpec == Spec /\ Fairness

----------------------------------------------------------------------------
\* Properties

\* The step delivers a signal of the interrupt set to the process.
DeliversMatching == nDelivered' # nDelivered /\ delivery'.sig \in Signals

\* C1 (parent propagation): for every Handle call that has derived its
\* context, once the parent is done the derived context eventually becomes
\* done, for as long as the process lives; no signal is needed.
C1_ParentPropagation ==
    \A h \in Calls :
        [](pc[h] # "idle" /\ ParentDone(parent[h])
              => <>(Done(ctx[h]) \/ exited))

\* The parent was cancelled after the call, no signal was ever delivered,
\* and the derived context is done by the parent's cancel.
C1_Witness ==
    \E h \in Calls :
        /\ pc[h] = "returned" /\ ~doneAtCall[h] /\ nDelivered = 0
        /\ ParentDone(parent[h])
        /\ Done(ctx[h]) /\ ctx[h].cause = "parent"

\* C2 (signal propagation): once a signal of the interrupt set has been
\* relayed to the registration of a Handle call, the derived context
\* eventually becomes done, for as long as the process lives.
C2_SignalPropagation ==
    \A h \in Calls : [](got[h] => <>(Done(ctx[h]) \/ exited))

\* Handle has returned, the parent is not done, a signal was relayed and
\* the derived context is done by it.
C2_Witness ==
    \E h \in Calls :
        /\ pc[h] = "returned" /\ parent[h] = "active" /\ got[h]
        /\ Done(ctx[h]) /\ ctx[h].cause = "signal"

C4_NoLeakedRegistration ==
    \A h \in Calls :
        [](pc[h] # "idle" /\ Done(ctx[h])
              => <>(h \notin handlers.m \/ exited))

\* The parent was cancelled, no signal ever arrived, and the registration
\* is gone.
C4_Witness ==
    \E h \in Calls :
        /\ ctx[h].cause = "parent" /\ ~doneAtCall[h] /\ nDelivered = 0
        /\ waiter[h] = "exit" /\ h \notin handlers.m

\* C5 (interception before the first signal): a signal of the interrupt set
\* delivered while a call's registration is active and its derived context
\* is not done is relayed to that registration, where the relaying
\* goroutine is waiting to cancel the context; the platform's default
\* action is not taken.
C5_Intercepted ==
    [][\A h \in Calls :
          (h \in handlers.m /\ ~Done(ctx[h]) /\ DeliversMatching)
              => /\ h \in delivery'.targets
                 /\ ch'[h] # <<>> /\ sigGo'[h] = "select"
                 /\ ~delivery'.default /\ ~exited']_vars

\* A matching signal sits in the channel of an active registration whose
\* context is not yet done, and the process is alive.
C5_Witness ==
    \E h \in Calls :
        /\ delivery.sig \in Signals /\ h \in delivery.targets
        /\ ~Done(ctx[h]) /\ ch[h] # <<>> /\ ~exited

\* C6 (no spurious cancellation): a derived context is done only by its
\* parent, which is then done, or by a signal relayed to its registration;
\* the waiter's cancel is never the one that makes it done.
C6_NoSpuriousCancel ==
    \A h \in Calls :
        /\ Done(ctx[h]) <=> ctx[h].cause # "none"
        /\ ctx[h].cause \in {"none", "parent", "signal"}
        /\ ctx[h].cause = "parent" => ParentDone(parent[h])
        /\ ctx[h].cause = "signal" => got[h]

\* Handle has returned on a parent that is not done, no signal reached the
\* registration, the waiter is blocked and the context is not done, while
\* the other call has run to completion.
C6_Witness ==
    \E h \in Calls :
        /\ pc[h] = "returned" /\ parent[h] = "active" /\ ~got[h]
        /\ waiter[h] = "blocked" /\ ~Done(ctx[h])
        /\ \E g \in Calls \ {h} : waiter[g] = "exit"

\* C7 (independence): a call whose own parent is not done and whose
\* registration received no signal has a derived context that is not done
\* and a registration that is active and referenced, whatever happened to
\* the other call, its parent and its waiter.
C7_Independence ==
    \A h \in Calls :
        (pc[h] # "idle" /\ parent[h] = "active" /\ ~got[h])
            => /\ ~Done(ctx[h])
               /\ h \in handlers.m
               /\ \A s \in Signals : handlers.ref[s] > 0

\* One parent was cancelled and its call cleaned up, the other call is
\* untouched.
C7_Witness ==
    \E h \in Calls : \E g \in Calls \ {h} :
        /\ parent[g] = "done" /\ ctx[g].cause = "parent"
        /\ waiter[g] = "exit" /\ g \notin handlers.m
        /\ pc[h] = "returned" /\ parent[h] = "active" /\ nDelivered = 0
        /\ ~Done(ctx[h]) /\ h \in handlers.m

\* The reference count of each signal is the number of registrations that
\* want it.
RefsConsistent ==
    \A s \in AllSignals :
        handlers.ref[s] =
            Cardinality({h \in handlers.m : s \in Mask(Signals)})

\* C8 (idempotent cleanup): after the waiter has run the cancel function,
\* also when the signal path had cancelled before it, the context is done
\* with its Done channel closed exactly once, the registration is removed
\* and the reference counts are intact; running cancel or Stop once more
\* leaves the state as it is.
C8_IdempotentCleanup ==
    /\ RefsConsistent
    /\ \A h \in Calls : ctx[h].closes <= 1
    /\ \A h \in Calls :
          waiter[h] = "exit"
              => /\ Done(ctx[h]) /\ ctx[h].closes = 1
                 /\ h \notin handlers.m
                 /\ cancel(ctx[h], "stop") = ctx[h]
                 /\ Stop(handlers, h, Signals) = handlers

\* The relaying goroutine cancelled on a signal and the waiter then ran
\* the cancel function again.
C8_Witness ==
    \E h \in Calls :
        /\ ctx[h].cause = "signal" /\ sigGo[h] = "exit"
        /\ waiter[h] = "exit"

\* C9 (already-cancelled parent): when the parent is done at the time of
\* the call, the derived context is done as soon as NotifyContext has
\* returned, by the parent and not by a signal, and the registration the
\* call made is eventually removed by the waiter.
C9_AlreadyCancelledParent ==
    \A h \in Calls :
        /\ [](doneAtCall[h] => Done(ctx[h]) /\ ctx[h].cause = "parent")
        /\ [](doneAtCall[h] => <>(h \notin handlers.m \/ exited))

\* Handle was called on a done parent, returned, and the waiter removed the
\* registration, with no signal delivered.
C9_Witness ==
    \E h \in Calls :
        /\ doneAtCall[h] /\ pc[h] = "returned" /\ nDelivered = 0
        /\ Done(ctx[h]) /\ waiter[h] = "exit" /\ h \notin handlers.m

\* C10 (done is terminal): a derived context that is done is done after
\* every step.
C10_DoneTerminal ==
    [][\A h \in Calls : Done(ctx[h]) => Done(ctx'[h])]_vars

\* The context is still done after a signal, the parent's cancel and the
\* waiter's cancel have all acted on it.
C10_Witness ==
    \E h \in Calls :
        /\ Done(ctx[h]) /\ got[h] /\ parent[h] = "done"
        /\ sigGo[h] = "exit" /\ waiter[h] = "exit"

\* C11 (broadcast delivery): a matching signal delivered while both calls
\* have an active registration is relayed to both registrations, and both
\* derived contexts then become done, for as long as the process lives.
C11_Broadcast ==
    /\ [][(DeliversMatching /\ handlers.m = Calls)
             => /\ delivery'.targets = Calls
                /\ \A h \in Calls : ch'[h] # <<>>]_vars
    /\ []((delivery.sig \in Signals /\ delivery.targets = Calls)
             => <>((\A h \in Calls : Done(ctx[h])) \/ exited))

\* One signal was delivered, neither parent is done, and both derived
\* contexts are done by that signal.
C11_Witness ==
    /\ nDelivered = 1 /\ delivery.targets = Calls
    /\ \A h \in Calls :
          /\ parent[h] = "active"
          /\ Done(ctx[h]) /\ ctx[h].cause = "signal"

C13_CleanupAfterDone ==
    /\ [][\A h \in Calls :
             (h \in handlers.m /\ h \notin handlers'.m) => Done(ctx[h])]_vars
    /\ [](\A h \in Calls :
             /\ (pc[h] # "idle" /\ h \notin handlers.m) => Done(ctx[h])
             /\ (pc[h] # "idle" /\ ~Done(ctx[h]))
                   => /\ waiter[h] \in {"none", "blocked"}
                      /\ \A s \in Signals : Intercepted(handlers, s))

\* The waiter of one call removed its registration after the context was
\* done, while the other call's context is active and still registered.
C13_Witness ==
    \E h \in Calls : \E g \in Calls \ {h} :
        /\ stopCalls[h] = 1 /\ h \notin handlers.m /\ Done(ctx[h])
        /\ pc[g] # "idle" /\ ~Done(ctx[g]) /\ g \in handlers.m

\* C14 as stated: in no reachable state is the parent done, or a signal
\* relayed to the registration, while the derived context is not done.
C14_Original ==
    \A h \in Calls :
        (pc[h] # "idle" /\ (ParentDone(parent[h]) \/ got[h]))
            => Done(ctx[h])

\* C14 (done follows its trigger), amended: the derived context is not
\* done after its trigger only while the cancel is in flight.  Either the
\* parent's cancel has closed the parent's Done channel and has yet to
\* reach the child, or the signal sits in the registration's channel with
\* the relaying goroutine ready to receive it; for as long as the process
\* lives the next step of that cancel is enabled and makes the context
\* done, with no further condition.
C14_DoneFollowsTrigger ==
    \A h \in Calls :
        (pc[h] # "idle" /\ ~Done(ctx[h]))
            => /\ ParentDone(parent[h])
                     => /\ parent[h] = "closing"
                        /\ ~exited => ENABLED ParentPropagate(h)
               /\ got[h]
                     => /\ ch[h] # <<>> /\ sigGo[h] = "select"
                        /\ ~exited => ENABLED RelayRecv(h)

\* Handle has returned, a signal was relayed to the registration and the
\* derived context is not done yet: the signal is in the channel.
C14_Witness ==
    \E h \in Calls :
        /\ pc[h] = "returned" /\ parent[h] = "active"
        /\ got[h] /\ ch[h] # <<>> /\ ~Done(ctx[h])

\* C15 (registration lifecycle): a registration is created only by the
\* NotifyContext step of its call, before Handle returns; from then on it
\* is active exactly until the waiter has run cancel, and a removed
\* registration is never active again; the active registrations never
\* outnumber the calls made.
C15_RegistrationLifecycle ==
    /\ [][\A h \in Calls :
             (h \notin handlers.m /\ h \in handlers'.m)
                 => pc[h] = "idle" /\ pc'[h] = "go"]_vars
    /\ [](\A h \in Calls :
             /\ pc[h] = "idle" => h \notin handlers.m
             /\ pc[h] # "idle" => (h \in handlers.m <=> stopCalls[h] = 0))
    /\ [](Cardinality(handlers.m)
             <= Cardinality({h \in Calls : pc[h] # "idle"}))

\* Both calls have returned; the registration of one was removed and that
\* of the other is active.
C15_Witness ==
    \E h \in Calls : \E g \in Calls \ {h} :
        /\ pc[h] = "returned" /\ pc[g] = "returned"
        /\ stopCalls[h] = 1 /\ h \notin handlers.m
        /\ stopCalls[g] = 0 /\ g \in handlers.m

\* C16 (own registration only): the waiter's cancel removes the
\* registration of its own call and nothing else, and leaves every signal
\* referenced by the registrations that remain; while any registration is
\* active a matching signal is relayed to the active registrations and
\* not given the platform's default action.
C16_OwnRegistrationOnly ==
    /\ [][\A h \in Calls :
             stopCalls'[h] # stopCalls[h]
                 => /\ handlers'.m = handlers.m \ {h}
                    /\ \A s \in AllSignals :
                          handlers'.ref[s] =
                              Cardinality({g \in handlers.m \ {h} :
                                              s \in Mask(Signals)})]_vars
    /\ [][(DeliversMatching /\ handlers.m # {})
             => /\ delivery'.targets = handlers.m
                /\ ~delivery'.default /\ ~exited']_vars

\* After the waiter of one call had removed its registration, a second
\* matching signal was relayed to the other call alone and the process
\* stayed alive.
C16_Witness ==
    \E h \in Calls : \E g \in Calls \ {h} :
        /\ got[h] /\ stopCalls[h] = 1
        /\ nDelivered = 2 /\ delivery.sig \in Signals
        /\ delivery.targets = {g} /\ ~exited

\* C17 (one-directional propagation): a step that cancels a derived
\* context, or in which the waiter runs cancel, leaves a parent that is
\* not done not done.
C17_OneDirectional ==
    [][\A h \in Calls :
          ((ctx'[h] # ctx[h] \/ stopCalls'[h] # stopCalls[h])
              /\ parent[h] = "active")
              => parent'[h] = "active"]_vars

\* The derived context was cancelled by a signal, the waiter ran cancel,
\* and the parent is not done.
C17_Witness ==
    \E h \in Calls :
        /\ ctx[h].cause = "signal" /\ Done(ctx[h])
        /\ stopCalls[h] = 1 /\ parent[h] = "active"

\* C18 (non-blocking return): once the waiter is started Handle can
\* return, whatever the state of the derived context and of the waiter,
\* for as long as the process lives.
C18_NonBlockingReturn ==
    \A h \in Calls :
        /\ (pc[h] = "go" /\ ~exited) => ENABLED Go(h)
        /\ (pc[h] = "return" /\ ~exited) => ENABLED Return(h)

\* Handle has returned while the derived context is not done and the
\* waiter is blocked on it.
C18_Witness ==
    \E h \in Calls :
        /\ pc[h] = "returned" /\ ~Done(ctx[h]) /\ waiter[h] = "blocked"
        /\ stopCalls[h] = 0 /\ ~exited

\* C19 (waiter termination): each call starts one waiter, at line 56, which
\* is never started again; the waiter runs cancel at most once, exactly
\* once by the time it has terminated; and once the derived context is
\* done the waiter eventually has run cancel and terminated, under fair
\* scheduling and for as long as the process lives.
C19_WaiterTermination ==
    /\ [](\A h \in Calls :
             /\ waiter[h] = "none" <=> pc[h] \in {"idle", "go"}
             /\ stopCalls[h] <= 1
             /\ waiter[h] = "exit" <=> stopCalls[h] = 1)
    /\ [][\A h \in Calls :
             /\ waiter[h] # "none" => waiter'[h] # "none"
             /\ waiter[h] = "exit" => waiter'[h] = "exit"]_vars
    /\ \A h \in Calls :
          [](pc[h] # "idle" /\ Done(ctx[h])
                => <>((waiter[h] = "exit" /\ stopCalls[h] = 1) \/ exited))

\* Both waiters have run cancel once and terminated.
C19_Witness ==
    \A h \in Calls :
        /\ Done(ctx[h]) /\ waiter[h] = "exit" /\ stopCalls[h] = 1

\* C20 (waiter and registration live as long as the context): for a call
\* past line 56 whose parent is not done and whose registration received
\* no signal, the waiter is blocked, has not run cancel, the registration
\* is active and the relaying goroutine is waiting.
C20_LiveAsLongAsContext ==
    \A h \in Calls :
        (pc[h] \in {"return", "returned"} /\ parent[h] = "active"
            /\ ~got[h])
            => /\ waiter[h] = "blocked" /\ stopCalls[h] = 0
               /\ h \in handlers.m /\ sigGo[h] = "select"

\* Handle returned long ago: the other call has been cancelled by its
\* parent and cleaned up, and this call's waiter is still blocked with the
\* registration active.
C20_Witness ==
    \E h \in Calls : \E g \in Calls \ {h} :
        /\ pc[h] = "returned" /\ parent[h] = "active" /\ nDelivered = 0
        /\ waiter[h] = "blocked" /\ h \in handlers.m
        /\ parent[g] = "done" /\ stopCalls[g] = 1

====
